---- MODULE Spec2Model ----
(***************************************************************************)
(* Model of src/servopwm.ts (namespace servoPWM): the Servo class, the     *)
(* background fibers started by Servo.setPulse (each running               *)
(* Servo._setPulse) and the 50 Hz emission fiber.                          *)
(*                                                                         *)
(* Scheduling is cooperative: a fiber runs until it calls basic.pause or   *)
(* returns.  Every public method of Servo runs without a suspension point, *)
(* so a call is one action.  A _setPulse fiber is cut at its basic.pause.  *)
(* Pause durations are not measured: a paused fiber may resume at any      *)
(* later moment (the caller can change _throttling between two fibers, so  *)
(* no order of wake-ups is guaranteed).                                    *)
(***************************************************************************)
EXTENDS Integers, Sequences, FiniteSets, TLC

VARIABLES
    servos,   \* _servos: the registry, a sequence of Servo objects
    tasks,    \* the fibers created by control.inBackground in Servo.setPulse
    emitted,  \* the pins.servoSetPulse calls made by the step just taken
    hist,     \* history (not read by the program): what was called and stepped
    nCalls    \* number of public calls made so far (bounds the exploration)

vars == <<servos, tasks, emitted, hist, nCalls>>

----------------------------------------------------------------------------
(* Bounds of the exploration *)

MaxServos == 2   \* servos created
MaxCalls == 3    \* public calls made under Spec
MaxMotion == 5   \* public calls made under SpecMotion
MaxSteps == 4    \* steps between the neutral pulse and a requested target
MaxPair == 6     \* public calls made under SpecPair
MaxConfig == 4   \* public calls made under SpecConfig
MaxFair == 4     \* public calls made under SpecFair
MaxMoves == 1    \* setPulse calls made on one servo under SpecPair

(* Arguments the callers pass *)
Pins == {0, 1}
PulseArgs == {400, 1485, 1505, 1530}
ScenarioArgs == {2000}
PulseByArgs == {-20, 7}
AngleArgs == {-5, 89, 91, 200}
AngleByArgs == {-5, 2}
DelayArgs == {-5, 10, 150}
MotionDelayArgs == {0, 10}
PairDelayArgs == {10}
PairPulseArgs == {1485, 1530}
FairPulseArgs == {1505, 1530}
DurationArgs == {0, 1000}
MaxAngleArgs == {0, 90}
MinAngleArgs == {45, 200}
MaxPulseArgs == {1490, 1515, 1520}
MinPulseArgs == {100, 1490, 1510}

----------------------------------------------------------------------------
(* Numbers.  A PXT number is an integer or a double.  The doubles that the *)
(* program can produce come from one division, so a number is kept as an   *)
(* exact fraction n/d, with d = 0 for the results of dividing by zero:     *)
(* 1/0 = Infinity, -1/0 = -Infinity, 0/0 = NaN.                            *)

Abs(x) == IF x < 0 THEN -x ELSE x

Sign(x) == IF x < 0 THEN -1 ELSE IF x > 0 THEN 1 ELSE 0

RECURSIVE Gcd(_, _)
Gcd(a, b) == IF b = 0 THEN a ELSE Gcd(b, a % b)

Num(i) == [n |-> i, d |-> 1]

NaN == [n |-> 0, d |-> 0]

IsNaN(v) == v.d = 0 /\ v.n = 0

(* a / b for integers a and b *)
Div(a, b) ==
    IF b = 0 THEN [n |-> Sign(a), d |-> 0]
    ELSE LET g == Gcd(Abs(a), Abs(b))
         IN  [n |-> Sign(b) * (a \div g), d |-> Abs(b) \div g]

(* v < w on numbers: false when either is NaN *)
Less(v, w) ==
    /\ ~IsNaN(v) /\ ~IsNaN(w)
    /\ IF v.d = 0 /\ w.d = 0 THEN v.n < w.n
       ELSE IF v.d = 0 THEN v.n < 0
       ELSE IF w.d = 0 THEN w.n > 0
       ELSE v.n * w.d < w.n * v.d

(* i + v and i * v for an integer i *)
AddInt(i, v) == IF v.d = 0 THEN v ELSE [n |-> i * v.d + v.n, d |-> v.d]

MulInt(i, v) ==
    IF v.d = 0 THEN (IF i = 0 THEN NaN ELSE [n |-> Sign(i) * v.n, d |-> 0])
    ELSE Div(i * v.n, v.d)

(* v | 0: NaN and the infinities give 0, a fraction is truncated toward 0 *)
ToInt(v) ==
    IF v.d = 0 THEN 0
    ELSE IF v.n >= 0 THEN v.n \div v.d ELSE -((-v.n) \div v.d)

(* Math.constrain(value, low, high) *)
Constrain(v, low, high) ==
    IF Less(v, Num(low)) THEN Num(low)
    ELSE IF Less(Num(high), v) THEN Num(high)
    ELSE v

ConstrainInt(i, low, high) == IF i < low THEN low ELSE IF i > high THEN high ELSE i

(* Math.idiv(a, b) for a >= 0, b > 0 *)
Idiv(a, b) == a \div b

(* Math.round(a / b) for a >= 0, b > 0: halves round up *)
Round(a, b) == (2 * a + b) \div (2 * b)

Immediately == 0

----------------------------------------------------------------------------
(* class Servo *)

(* new Servo(pin, pwmStart): the field initialisers and the constructor.   *)
(* anotherCallStack holds the length of _anotherCallStack: the program     *)
(* reads nothing of that array but its length.                             *)
NewServo(pin, pwmStart) ==
    [ pin              |-> pin,
      pulse            |-> 1500,
      throttling       |-> Num(0),
      pulseStep        |-> 10,
      pwmOn            |-> pwmStart,
      neutralPulse     |-> 1500,
      minPulse         |-> 500,
      maxPulse         |-> 2500,
      minAngle         |-> 0,
      maxAngle         |-> 180,
      anotherCallStack |-> 0 ]

(* The result of a public method: the servo after the call and the         *)
(* arguments of the fibers it handed to control.inBackground.              *)
Returned(s, fibers) == [servo |-> s, fibers |-> fibers]

(* Servo.setDelay(stepDuration) *)
setDelay(s, stepDuration) ==
    Returned([s EXCEPT !.throttling = Constrain(stepDuration, 0, 100)], <<>>)

(* Servo.setDuration(milis) *)
setDuration(s, milis) ==
    setDelay(s, Div(milis, Idiv(s.maxPulse - s.minPulse, s.pulseStep)))

(* Servo.getDelay() and Servo.getPulse() *)
getDelay(s) == s.throttling

getPulse(s) == s.pulse

(* Servo.setPulse(micros) without Math.constrain *)
setPulseUnconstrained(s, micros) ==
    IF s.throttling = Num(Immediately)
    THEN Returned([s EXCEPT !.anotherCallStack = @ + 1,
                            !.pulse = ToInt(micros),
                            !.pwmOn = TRUE], <<>>)
    ELSE Returned([s EXCEPT !.pwmOn = TRUE], <<ToInt(micros)>>)

(* Servo.setPulse(micros) *)
setPulse(s, micros) ==
    LET m == ConstrainInt(ToInt(micros), s.minPulse, s.maxPulse)
    IN  IF s.throttling = Num(Immediately)
        THEN Returned([s EXCEPT !.anotherCallStack = @ + 1,
                                !.pulse = m,
                                !.pwmOn = TRUE], <<>>)
        ELSE Returned([s EXCEPT !.pwmOn = TRUE], <<m>>)

(* Servo._angleToPulse(degrees) rounded to the nearest integer *)
angleToPulseRounded(s, degrees) ==
    LET v == MulInt(s.maxPulse - s.minPulse,
                    Div(degrees - s.minAngle, s.maxAngle - s.minAngle))
    IN  IF v.d = 0 THEN v ELSE Num((2 * v.n + v.d) \div (2 * v.d))

(* Servo._angleToPulse(degrees) *)
angleToPulse(s, degrees) ==
    MulInt(s.maxPulse - s.minPulse,
           Div(degrees - s.minAngle, s.maxAngle - s.minAngle))

(* Servo.setAngle(degrees) *)
setAngle(s, degrees) ==
    LET deg == ConstrainInt(degrees, s.minAngle, s.maxAngle)
    IN  setPulse(s, AddInt(s.minPulse, angleToPulse(s, deg)))

(* Servo.setAngleBy(degrees) *)
setAngleBy(s, degrees) ==
    LET deg == ConstrainInt(degrees, s.minAngle, s.maxAngle)
    IN  setPulse(s, AddInt(s.pulse, angleToPulse(s, deg)))

(* Servo.setPulseBy(micros) counting from the neutral pulse *)
setPulseByFromNeutral(s, micros) == setPulse(s, Num(micros + s.neutralPulse))

(* Servo.setPulseBy(micros) *)
setPulseBy(s, micros) == setPulse(s, Num(micros + s.pulse))

(* Servo.stop(): the two pins.* calls touch the pin only *)
stop(s) == Returned([s EXCEPT !.pwmOn = FALSE], <<>>)

(* Servo.setMaxAngle, setMinAngle, setMaxPulse, setMinPulse *)
setMaxAngle(s, degrees) ==
    Returned([s EXCEPT !.maxAngle = ConstrainInt(degrees, s.minAngle, 3600)], <<>>)

setMinAngle(s, degrees) ==
    Returned([s EXCEPT !.minAngle = ConstrainInt(degrees, -3600, s.maxAngle)], <<>>)

setMaxPulse(s, pulse) ==
    Returned([s EXCEPT !.maxPulse = ConstrainInt(pulse, s.minPulse, 3000)], <<>>)

setMinPulse(s, pulse) ==
    Returned([s EXCEPT !.minPulse = ConstrainInt(pulse, 250, s.maxPulse)], <<>>)

(* Servo.callPulse() without the test of _pwmOn *)
callPulseAlways(s) == <<[pin |-> s.pin, pulse |-> s.pulse]>>

(* Servo.callPulse(): what it sends to the pin *)
callPulse(s) ==
    IF s.pwmOn THEN <<[pin |-> s.pin, pulse |-> s.pulse]>> ELSE <<>>

----------------------------------------------------------------------------
(* The fibers running Servo._setPulse(pulse).  pc is "ready" from          *)
(* control.inBackground until the fiber first runs, "paused" inside        *)
(* basic.pause(this._throttling), "done" after a return.  The other fields *)
(* are the parameter and the locals of _setPulse.                          *)

NewFiber(i, pulse) ==
    [ servo |-> i, pulse |-> pulse, pc |-> "ready",
      direction |-> 0, pulseFrom |-> 0, pulseTo |-> 0,
      anotherCallsCount |-> 0, k |-> 0 ]

Ran(s, t) == [servo |-> s, task |-> t]

(* A fiber that returned: nothing is left of it but its record here *)
Return(t) ==
    [t EXCEPT !.pc = "done", !.direction = 0, !.pulseFrom = 0, !.pulseTo = 0,
              !.anotherCallsCount = 0, !.k = 0]

(* The loop condition with <= for < *)
LoopConditionInclusive(s, t) ==
    t.k <= Round(Abs(t.pulseFrom - t.pulseTo), s.pulseStep)

(* The loop condition of _setPulse: k < Math.round(|from - to| / step) *)
LoopCondition(s, t) ==
    t.k < Round(Abs(t.pulseFrom - t.pulseTo), s.pulseStep)

(* _setPulse from the evaluation of the loop condition to the next         *)
(* basic.pause or return.                                                  *)
Iteration(s, t) ==
    IF LoopCondition(s, t)
    THEN IF ~s.pwmOn
         THEN Ran(s, Return(t))
         ELSE IF t.anotherCallsCount # s.anotherCallStack
         THEN Ran(s, Return(t))
         ELSE Ran([s EXCEPT !.pulse = @ + s.pulseStep * t.direction],
                  [t EXCEPT !.pc = "paused"])
    ELSE Ran([s EXCEPT !.anotherCallStack = 0], Return(t))

(* _setPulse entered, setting the pulse to a target less than a step away *)
EntrySnapping(s, t) ==
    LET direction == IF s.pulse < t.pulse THEN 1 ELSE -1
        pulseFrom == IF s.pulse < t.pulse THEN s.pulse ELSE t.pulse
        pulseTo   == IF s.pulse > t.pulse THEN s.pulse ELSE t.pulse
    IN  IF Abs(pulseFrom - pulseTo) < s.pulseStep
        THEN Ran([s EXCEPT !.pulse = t.pulse], Return(t))
        ELSE Iteration([s EXCEPT !.anotherCallStack = @ + 1],
                       [t EXCEPT !.direction = direction, !.pulseFrom = pulseFrom,
                                 !.pulseTo = pulseTo,
                                 !.anotherCallsCount = s.anotherCallStack + 1,
                                 !.k = 0])

(* _setPulse from its entry to the first basic.pause or return *)
Entry(s, t) ==
    LET direction == IF s.pulse < t.pulse THEN 1 ELSE -1
        pulseFrom == IF s.pulse < t.pulse THEN s.pulse ELSE t.pulse
        pulseTo   == IF s.pulse > t.pulse THEN s.pulse ELSE t.pulse
    IN  IF Abs(pulseFrom - pulseTo) < s.pulseStep
        THEN Ran(s, Return(t))
        ELSE Iteration([s EXCEPT !.anotherCallStack = @ + 1],
                       [t EXCEPT !.direction = direction, !.pulseFrom = pulseFrom,
                                 !.pulseTo = pulseTo,
                                 !.anotherCallsCount = s.anotherCallStack + 1,
                                 !.k = 0])

(* A fiber that returns from basic.pause into the same basic.pause *)
ResumedStalled(s, t) == Ran(s, t)

(* _setPulse from the return of basic.pause: k++, then the loop again *)
Resumed(s, t) == Iteration(s, [t EXCEPT !.k = @ + 1])

(* The emission fiber: one pass of its for loop over _servos, from index i *)
RECURSIVE Emission(_, _)
Emission(reg, i) ==
    IF i > Len(reg) THEN <<>>
    ELSE [j \in 1..Len(callPulse(reg[i])) |->
             [servo |-> i, pin |-> callPulse(reg[i])[j].pin,
              pulse |-> callPulse(reg[i])[j].pulse]]
         \o Emission(reg, i + 1)

----------------------------------------------------------------------------
(* History.  For servo i: calls[i] counts the setPulse calls made on it    *)
(* (directly or through setAngle, setAngleBy, setPulseBy) and last[i]      *)
(* describes the latest public call on it: kind "immediate" for a setPulse *)
(* that set the pulse at once, "timed" for one that created a fiber,       *)
(* "stop", or "other"; micros is the integer setPulse was given and target *)
(* that integer constrained to the pulse range of that moment.             *)
(* For fiber j: made[j] is the value of calls when setPulse created it,    *)
(* from[j] the servo's pulse at that moment, others[j] what the servo's    *)
(* earlier fibers were doing then, applied[j] the number of times the      *)
(* fiber changed the pulse, stopped[j] whether stop() was called while the *)
(* fiber had not returned.                                                 *)

Others(i) ==
    IF \E j \in 1..Len(tasks) : tasks[j].servo = i /\ tasks[j].pc = "paused"
    THEN "stepping"
    ELSE IF \E j \in 1..Len(tasks) : tasks[j].servo = i /\ tasks[j].pc = "ready"
    THEN "pending"
    ELSE "idle"

NoHistory ==
    [ calls |-> <<>>, last |-> <<>>, made |-> <<>>, from |-> <<>>,
      others |-> <<>>, applied |-> <<>>, stopped |-> <<>> ]

LastCall(op, kind, micros, target) ==
    [op |-> op, kind |-> kind, micros |-> micros, target |-> target]

SetOps == {"setPulse", "setPulseBy", "setAngle", "setAngleBy"}

(* The history after public call `op` on servo i returned r; micros is the *)
(* number a set operation handed to setPulse                               *)
Called(i, op, micros, r) ==
    LET n      == Len(r.fibers)
        m      == ToInt(micros)
        target == ConstrainInt(m, servos[i].minPulse, servos[i].maxPulse)
    IN  [ hist EXCEPT
            !.calls[i] = IF op \in SetOps THEN @ + 1 ELSE @,
            !.last[i]  = IF op \in SetOps
                         THEN LastCall(op, IF n > 0 THEN "timed" ELSE "immediate",
                                       m, target)
                         ELSE LastCall(op, IF op = "stop" THEN "stop" ELSE "other", 0, 0),
            !.made     = @ \o [j \in 1..n |-> hist.calls[i] + 1],
            !.from     = @ \o [j \in 1..n |-> servos[i].pulse],
            !.others   = @ \o [j \in 1..n |-> Others(i)],
            !.applied  = @ \o [j \in 1..n |-> 0],
            !.stopped  = [j \in 1..(Len(tasks) + n) |->
                            IF j > Len(tasks) THEN FALSE
                            ELSE @[j] \/ (op = "stop" /\ tasks[j].servo = i
                                          /\ tasks[j].pc # "done")] ]

----------------------------------------------------------------------------
(* The state machine *)

Init ==
    /\ servos = <<>>
    /\ tasks = <<>>
    /\ emitted = <<>>
    /\ hist = NoHistory
    /\ nCalls = 0

(* createServo(pin, pwmStart) putting the new servo first in _servos *)
createServoFirst(pin, pwmStart, budget) ==
    /\ nCalls < budget
    /\ Len(servos) < MaxServos
    /\ servos' = <<NewServo(pin, pwmStart)>> \o servos
    /\ hist' = [hist EXCEPT !.calls = Append(@, 0),
                            !.last = Append(@, LastCall("createServo", "other", 0, 0))]
    /\ nCalls' = nCalls + 1
    /\ emitted' = <<>>
    /\ UNCHANGED tasks

(* createServo(pin, pwmStart); budget bounds the calls explored *)
createServo(pin, pwmStart, budget) ==
    /\ nCalls < budget
    /\ Len(servos) < MaxServos
    /\ servos' = Append(servos, NewServo(pin, pwmStart))
    /\ hist' = [hist EXCEPT !.calls = Append(@, 0),
                            !.last = Append(@, LastCall("createServo", "other", 0, 0))]
    /\ nCalls' = nCalls + 1
    /\ emitted' = <<>>
    /\ UNCHANGED tasks

(* The targets explored: at most MaxSteps steps away from the neutral      *)
(* pulse, or the far target of the 50-step scenario                        *)
Near(s, pulse) ==
    \/ Abs(pulse - s.neutralPulse) <= MaxSteps * s.pulseStep
    \/ pulse \in ScenarioArgs

(* A public method of servo i returns r *)
Call(i, op, micros, r, budget) ==
    /\ nCalls < budget
    /\ r.servo.pulse # servos[i].pulse => Near(r.servo, r.servo.pulse)
    /\ \A j \in 1..Len(r.fibers) : Near(r.servo, r.fibers[j])
    /\ servos' = [servos EXCEPT ![i] = r.servo]
    /\ tasks' = tasks \o [j \in 1..Len(r.fibers) |-> NewFiber(i, r.fibers[j])]
    /\ hist' = Called(i, op, micros, r)
    /\ nCalls' = nCalls + 1
    /\ emitted' = <<>>

SetPulse(i, args, budget) ==
    \E micros \in args :
        Call(i, "setPulse", Num(micros), setPulse(servos[i], Num(micros)), budget)

SetPulseBy(i, budget) ==
    \E micros \in PulseByArgs :
        Call(i, "setPulseBy", Num(micros + servos[i].pulse),
             setPulseBy(servos[i], micros), budget)

SetAngle(i, budget) ==
    \E degrees \in AngleArgs :
        LET deg == ConstrainInt(degrees, servos[i].minAngle, servos[i].maxAngle)
        IN  Call(i, "setAngle",
                 AddInt(servos[i].minPulse, angleToPulse(servos[i], deg)),
                 setAngle(servos[i], degrees), budget)

SetAngleBy(i, budget) ==
    \E degrees \in AngleByArgs :
        LET deg == ConstrainInt(degrees, servos[i].minAngle, servos[i].maxAngle)
        IN  Call(i, "setAngleBy",
                 AddInt(servos[i].pulse, angleToPulse(servos[i], deg)),
                 setAngleBy(servos[i], degrees), budget)

SetDelay(i, args, budget) ==
    \E stepDuration \in args :
        Call(i, "setDelay", Num(0), setDelay(servos[i], Num(stepDuration)), budget)

SetDuration(i, budget) ==
    \E milis \in DurationArgs :
        Call(i, "setDuration", Num(0), setDuration(servos[i], milis), budget)

Stop(i, budget) == Call(i, "stop", Num(0), stop(servos[i]), budget)

SetMaxAngle(i, budget) ==
    \E degrees \in MaxAngleArgs :
        Call(i, "setMaxAngle", Num(0), setMaxAngle(servos[i], degrees), budget)

SetMinAngle(i, budget) ==
    \E degrees \in MinAngleArgs :
        Call(i, "setMinAngle", Num(0), setMinAngle(servos[i], degrees), budget)

SetMaxPulse(i, budget) ==
    \E pulse \in MaxPulseArgs :
        Call(i, "setMaxPulse", Num(0), setMaxPulse(servos[i], pulse), budget)

SetMinPulse(i, budget) ==
    \E pulse \in MinPulseArgs :
        Call(i, "setMinPulse", Num(0), setMinPulse(servos[i], pulse), budget)

(* Run as it would be if the servos shared one _pulse *)
RunShared(j, r) ==
    /\ servos' = [k \in 1..Len(servos) |->
                      IF k = tasks[j].servo THEN r.servo
                      ELSE [servos[k] EXCEPT !.pulse = r.servo.pulse]]
    /\ tasks' = [tasks EXCEPT ![j] = r.task]
    /\ hist' = [hist EXCEPT !.applied[j] =
                   IF r.servo.pulse # servos[tasks[j].servo].pulse THEN @ + 1 ELSE @]
    /\ emitted' = <<>>
    /\ UNCHANGED nCalls

(* Fiber j runs from pc to its next basic.pause or return, giving r *)
Run(j, r) ==
    /\ servos' = [servos EXCEPT ![tasks[j].servo] = r.servo]
    /\ tasks' = [tasks EXCEPT ![j] = r.task]
    /\ hist' = [hist EXCEPT !.applied[j] =
                   IF r.servo.pulse # servos[tasks[j].servo].pulse THEN @ + 1 ELSE @]
    /\ emitted' = <<>>
    /\ UNCHANGED nCalls

(* A fiber created by setPulse runs for the first time *)
Start(j) ==
    /\ tasks[j].pc = "ready"
    /\ Run(j, Entry(servos[tasks[j].servo], tasks[j]))

(* A fiber returns from basic.pause *)
Resume(j) ==
    /\ tasks[j].pc = "paused"
    /\ Run(j, Resumed(servos[tasks[j].servo], tasks[j]))

(* The emission fiber: one pass over _servos, then basic.pause(20).  The    *)
(* pass holds no basic.pause, so no other fiber runs inside it.            *)
Tick ==
    /\ emitted' = Emission(servos, 1)
    /\ UNCHANGED <<servos, tasks, hist, nCalls>>

Next ==
    \/ \E pin \in Pins, pwmStart \in BOOLEAN : createServo(pin, pwmStart, MaxCalls)
    \/ \E i \in 1..Len(servos) : SetPulse(i, PulseArgs, MaxCalls)
    \/ \E i \in 1..Len(servos) : SetPulseBy(i, MaxCalls)
    \/ \E i \in 1..Len(servos) : SetAngle(i, MaxCalls)
    \/ \E i \in 1..Len(servos) : SetAngleBy(i, MaxCalls)
    \/ \E i \in 1..Len(servos) : SetDelay(i, DelayArgs, MaxCalls)
    \/ \E i \in 1..Len(servos) : SetDuration(i, MaxCalls)
    \/ \E i \in 1..Len(servos) : Stop(i, MaxCalls)
    \/ \E i \in 1..Len(servos) : SetMaxAngle(i, MaxCalls)
    \/ \E i \in 1..Len(servos) : SetMinAngle(i, MaxCalls)
    \/ \E i \in 1..Len(servos) : SetMaxPulse(i, MaxCalls)
    \/ \E i \in 1..Len(servos) : SetMinPulse(i, MaxCalls)
    \/ \E j \in 1..Len(tasks) : Start(j)
    \/ \E j \in 1..Len(tasks) : Resume(j)
    \/ Tick

(* Every public operation, a few calls deep *)
Spec == Init /\ [][Next]_vars

(* One servo and the operations that start, supersede and cancel its       *)
(* transitions, more calls deep                                            *)
NextMotion ==
    \/ \E pin \in Pins, pwmStart \in BOOLEAN :
           servos = <<>> /\ createServo(pin, pwmStart, MaxMotion)
    \/ \E i \in 1..Len(servos) : SetPulse(i, PulseArgs, MaxMotion)
    \/ \E i \in 1..Len(servos) : SetDelay(i, MotionDelayArgs, MaxMotion)
    \/ \E i \in 1..Len(servos) : Stop(i, MaxMotion)
    \/ \E j \in 1..Len(tasks) : Start(j)
    \/ \E j \in 1..Len(tasks) : Resume(j)
    \/ Tick

SpecMotion == Init /\ [][NextMotion]_vars

(* One servo and the same operations, fewer calls deep, with the far       *)
(* target of the 50-step scenario among the targets                        *)
NextScenario ==
    \/ \E pin \in Pins, pwmStart \in BOOLEAN :
           servos = <<>> /\ createServo(pin, pwmStart, MaxCalls)
    \/ \E i \in 1..Len(servos) : SetPulse(i, PulseArgs \cup ScenarioArgs, MaxCalls)
    \/ \E i \in 1..Len(servos) : SetDelay(i, MotionDelayArgs, MaxCalls)
    \/ \E i \in 1..Len(servos) : Stop(i, MaxCalls)
    \/ \E j \in 1..Len(tasks) : Start(j)
    \/ \E j \in 1..Len(tasks) : Resume(j)
    \/ Tick

SpecScenario == Init /\ [][NextScenario]_vars

(* Servos on different pins, each put in timed mode once and sent to a     *)
(* target, their fibers interleaved in every order                         *)
NextPair ==
    \/ \E pin \in Pins, pwmStart \in BOOLEAN :
           /\ \A k \in 1..Len(servos) : servos[k].pin # pin
           /\ createServo(pin, pwmStart, MaxPair)
    \/ \E i \in 1..Len(servos) :
           hist.calls[i] < MaxMoves /\ SetPulse(i, PairPulseArgs, MaxPair)
    \/ \E i \in 1..Len(servos) :
           servos[i].throttling = Num(Immediately) /\ SetDelay(i, PairDelayArgs, MaxPair)
    \/ \E j \in 1..Len(tasks) : Start(j)
    \/ \E j \in 1..Len(tasks) : Resume(j)

SpecPair == Init /\ [][NextPair]_vars

(* One servo, its configuration and the angle operations *)
NextConfig ==
    \/ \E pin \in Pins, pwmStart \in BOOLEAN :
           servos = <<>> /\ createServo(pin, pwmStart, MaxConfig)
    \/ \E i \in 1..Len(servos) : SetAngle(i, MaxConfig)
    \/ \E i \in 1..Len(servos) : SetAngleBy(i, MaxConfig)
    \/ \E i \in 1..Len(servos) : SetDelay(i, DelayArgs, MaxConfig)
    \/ \E i \in 1..Len(servos) : SetDuration(i, MaxConfig)
    \/ \E i \in 1..Len(servos) : SetMaxAngle(i, MaxConfig)
    \/ \E i \in 1..Len(servos) : SetMinAngle(i, MaxConfig)
    \/ \E i \in 1..Len(servos) : SetMaxPulse(i, MaxConfig)
    \/ \E i \in 1..Len(servos) : SetMinPulse(i, MaxConfig)
    \/ \E j \in 1..Len(tasks) : Start(j)
    \/ \E j \in 1..Len(tasks) : Resume(j)

SpecConfig == Init /\ [][NextConfig]_vars

(* One servo put in timed mode once, its transitions started, superseded   *)
(* and stopped                                                             *)
NextFair ==
    \/ \E pin \in Pins, pwmStart \in BOOLEAN :
           servos = <<>> /\ createServo(pin, pwmStart, MaxFair)
    \/ \E i \in 1..Len(servos) : SetPulse(i, FairPulseArgs, MaxFair)
    \/ \E i \in 1..Len(servos) :
           servos[i].throttling = Num(Immediately) /\ SetDelay(i, PairDelayArgs, MaxFair)
    \/ \E i \in 1..Len(servos) : Stop(i, MaxFair)
    \/ \E j \in 1..Len(tasks) : Start(j)
    \/ \E j \in 1..Len(tasks) : Resume(j)

(* The scheduler runs every fiber that is ready and wakes every fiber      *)
(* whose basic.pause has elapsed: a fiber that can run does run.  A call   *)
(* creates at most one fiber, so fiber numbers stay below MaxFair.         *)
Fairness ==
    \A j \in 1..MaxFair :
        /\ WF_vars(j \in 1..Len(tasks) /\ Start(j))
        /\ WF_vars(j \in 1..Len(tasks) /\ Resume(j))

SpecFair == Init /\ [][NextFair]_vars /\ Fairness

----------------------------------------------------------------------------
(* Properties *)

ServoIds == 1..Len(servos)

FiberIds == 1..Len(tasks)

FibersOf(i) == {j \in FiberIds : tasks[j].servo = i}

(* Fiber j changes the pulse in this step *)
Steps(j) == hist'.applied[j] > hist.applied[j]

(* C1: once a setPulse call on a servo has returned, no fiber created by   *)
(* an earlier setPulse call on that servo changes the pulse any more (it   *)
(* follows that the steps of two fibers of one servo never interleave).    *)
C1_OnlyNewestSteps ==
    [][\A j \in FiberIds :
          Steps(j) => hist.made[j] = hist.calls[tasks[j].servo]]_vars

(* C2: when a timed setPulse(B) was issued while an earlier transition of  *)
(* the servo was between two steps, no call followed and every fiber of    *)
(* the servo has returned, the pulse is within one step of B (constrained).*)
C2_SettlesAtNewest ==
    \A j \in FiberIds :
        LET i == tasks[j].servo
        IN  ( /\ hist.others[j] = "stepping"
              /\ hist.made[j] = hist.calls[i]
              /\ hist.last[i].kind = "timed"
              /\ \A f \in FibersOf(i) : tasks[f].pc = "done" )
            => Abs(servos[i].pulse - tasks[j].pulse) <= servos[i].pulseStep

(* C3: stop() turns the power off and leaves the pulse as it is, and a     *)
(* fiber that had not returned when stop() was called never changes the    *)
(* pulse again, whatever calls follow.                                     *)
C3_StopCancels ==
    [][ /\ \A j \in FiberIds : hist.stopped[j] => ~Steps(j)
        /\ \A i \in ServoIds :
              hist'.last[i].kind = "stop" /\ nCalls' # nCalls
                  => ~servos'[i].pwmOn /\ servos'[i].pulse = servos[i].pulse
      ]_vars

(* C4: the pulse of every servo is within its pulse range. *)
C4_PulseInRange ==
    \A i \in ServoIds :
        servos[i].minPulse <= servos[i].pulse /\ servos[i].pulse <= servos[i].maxPulse

(* A fiber that ran alone: no fiber of its servo was alive when setPulse   *)
(* created it, no setPulse call followed and stop() was not called before  *)
(* it returned.                                                            *)
Undisturbed(j) ==
    /\ tasks[j].pc = "done"
    /\ hist.others[j] = "idle"
    /\ hist.made[j] = hist.calls[tasks[j].servo]
    /\ ~hist.stopped[j]

Distance(j) == Abs(tasks[j].pulse - hist.from[j])

Toward(j) == IF hist.from[j] < tasks[j].pulse THEN 1 ELSE -1

(* Where fiber j left the pulse if it applied n steps *)
Landed(j, n) ==
    LET s == servos[tasks[j].servo]
    IN  /\ hist.applied[j] = n
        /\ s.pulse = hist.from[j] + n * s.pulseStep * Toward(j)
        /\ Abs(s.pulse - tasks[j].pulse) <= s.pulseStep

(* C5 as claimed: an undisturbed timed transition applies exactly          *)
(* round(|target - from| / step) steps toward the target and ends within   *)
(* one step of it.                                                         *)
C5_RoundedSteps ==
    \A j \in FiberIds :
        Undisturbed(j) =>
            Landed(j, (2 * Distance(j) + servos[tasks[j].servo].pulseStep)
                          \div (2 * servos[tasks[j].servo].pulseStep))

(* C5 amended: an undisturbed timed transition applies no step when the    *)
(* target is less than one step away, and otherwise exactly                *)
(* round(|target - from| / step) steps toward the target; either way it    *)
(* ends within one step of the target.                                     *)
C5_StepsOrNone ==
    \A j \in FiberIds :
        Undisturbed(j) =>
            LET step == servos[tasks[j].servo].pulseStep
            IN  IF Distance(j) < step
                THEN Landed(j, 0)
                ELSE Landed(j, (2 * Distance(j) + step) \div (2 * step))

(* The scenario: from 1500 to 2000 in 50 steps *)
C5_Witness ==
    \E j \in FiberIds :
        /\ Undisturbed(j)
        /\ hist.from[j] = 1500
        /\ tasks[j].pulse = 2000
        /\ hist.applied[j] = 50
        /\ servos[tasks[j].servo].pulse \in 1990..2000

(* C6: from an immediate setPulse(x) to the next public call on the servo  *)
(* the pulse stays x constrained to the pulse range.                       *)
C6_ImmediateHolds ==
    \A i \in ServoIds :
        hist.last[i].kind = "immediate" => servos[i].pulse = hist.last[i].target

(* The step is the call setPulse(micros) on servo i while its delay is 0 *)
ImmediateSetPulse(i, micros) ==
    /\ servos[i].throttling = Num(Immediately)
    /\ hist'.calls[i] = hist.calls[i] + 1
    /\ hist'.last[i].micros = micros
    /\ servos' = [servos EXCEPT ![i] = setPulse(servos[i], Num(micros)).servo]

(* What an immediate setPulse(micros) leaves: the pulse constrained to the *)
(* range, the power on, no new fiber, nothing else of the servo changed    *)
(* but the call stack.                                                     *)
ImmediateEffect(i, micros) ==
    /\ servos'[i].pulse = ConstrainInt(micros, servos[i].minPulse, servos[i].maxPulse)
    /\ servos'[i].pwmOn
    /\ tasks' = tasks
    /\ [servos'[i] EXCEPT !.anotherCallStack = 0]
           = [servos[i] EXCEPT !.pulse = servos'[i].pulse, !.pwmOn = TRUE,
                               !.anotherCallStack = 0]

(* C7 as claimed: in immediate mode setPulse(x) leaves the pulse at x      *)
(* constrained, the power on and no new fiber, and a second setPulse(x)    *)
(* leaves the state of the first.                                          *)
C7_SecondCallSameState ==
    [][\A i \in ServoIds : \A micros \in PulseArgs :
          ImmediateSetPulse(i, micros) =>
              /\ ImmediateEffect(i, micros)
              /\ setPulse(servos'[i], Num(micros)) = Returned(servos'[i], <<>>)]_vars

(* C7 amended: as claimed, but the second setPulse(x) leaves the state of  *)
(* the first except for the call stack, which it lengthens by one more.    *)
C7_SecondCallSameButStack ==
    [][\A i \in ServoIds : \A micros \in PulseArgs :
          ImmediateSetPulse(i, micros) =>
              /\ ImmediateEffect(i, micros)
              /\ setPulse(servos'[i], Num(micros))
                     = Returned([servos'[i] EXCEPT !.anotherCallStack = @ + 1], <<>>)]_vars

C7_Witness ==
    \E i \in ServoIds :
        /\ hist.last[i].kind = "immediate"
        /\ hist.last[i].micros < servos[i].minPulse
        /\ servos[i].pulse = servos[i].minPulse
        /\ servos[i].pwmOn

(* C8: every setPulse call (direct or through setAngle, setAngleBy,        *)
(* setPulseBy) has lengthened the servo's call stack by exactly one when   *)
(* it returns.                                                             *)
C8_EveryCallCounts ==
    [][\A i \in ServoIds :
          hist'.calls[i] = hist.calls[i] + 1
              => servos'[i].anotherCallStack = servos[i].anotherCallStack + 1]_vars

(* C9: the length of a servo's call stack never decreases. *)
C9_CounterMonotonic ==
    [][\A i \in ServoIds :
          servos'[i].anotherCallStack >= servos[i].anotherCallStack]_vars

(* The step is one pass of the emission loop *)
EmissionPass == UNCHANGED <<servos, tasks, hist, nCalls>>

(* C10: a pass of the emission loop emits once for each servo whose power  *)
(* is on, in registration order, the servo's pulse on the servo's pin, and *)
(* nothing for a servo whose power is off; no other step emits; stop()     *)
(* turns the power off and only a setPulse call turns it on.               *)
C10_EmitsPoweredServos ==
    [][ /\ EmissionPass =>
              /\ \A a, b \in 1..Len(emitted') : a < b => emitted'[a].servo < emitted'[b].servo
              /\ \A i \in ServoIds :
                    servos[i].pwmOn <=> \E a \in 1..Len(emitted') : emitted'[a].servo = i
              /\ \A a \in 1..Len(emitted') :
                    /\ emitted'[a].servo \in ServoIds
                    /\ emitted'[a].pulse = servos[emitted'[a].servo].pulse
                    /\ emitted'[a].pin = servos[emitted'[a].servo].pin
        /\ ~EmissionPass => emitted' = <<>>
        /\ \A i \in ServoIds :
              /\ hist'.last[i].kind = "stop" /\ nCalls' # nCalls => ~servos'[i].pwmOn
              /\ ~servos[i].pwmOn /\ servos'[i].pwmOn => hist'.calls[i] = hist.calls[i] + 1
      ]_vars

C10_Witness ==
    /\ Len(servos) = 2
    /\ hist.last[1].kind = "stop"
    /\ Len(emitted) = 1
    /\ emitted[1].servo = 2

(* The step leaves every servo but servo i as it is *)
Frame(i) == \A k \in ServoIds \ {i} : servos'[k] = servos[k]

(* C11: a public call on a servo and a run of one of its fibers leave      *)
(* every other servo (pulse, power, call stack, configuration) unchanged,  *)
(* a new fiber belongs to the servo that was called, and a transition      *)
(* that was neither superseded nor stopped on its own servo ends within    *)
(* one step of its target whatever the other servos did meanwhile.         *)
C11_NoCrossInterference ==
    [][ /\ \A i \in ServoIds : hist'.calls[i] # hist.calls[i] => Frame(i)
        /\ \A i \in ServoIds : hist'.last[i] # hist.last[i] => Frame(i)
        /\ \A j \in FiberIds : tasks'[j] # tasks[j] => Frame(tasks[j].servo)
        /\ \E i \in ServoIds \cup {0} : Frame(i)
        /\ \A j \in 1..Len(tasks') :
              j > Len(tasks) => hist'.calls[tasks'[j].servo] # hist.calls[tasks'[j].servo]
        /\ \A j \in FiberIds :
              Undisturbed(j)' =>
                  Abs(servos'[tasks[j].servo].pulse - tasks[j].pulse)
                      <= servos[tasks[j].servo].pulseStep
      ]_vars

(* Two servos in the middle of their transitions at the same time, each    *)
(* some steps away from the neutral pulse on its own side                  *)
C11_Witness ==
    \E a, b \in FiberIds :
        /\ tasks[a].servo = 1 /\ tasks[b].servo = 2
        /\ tasks[a].pc = "paused" /\ tasks[b].pc = "paused"
        /\ hist.applied[a] >= 1 /\ hist.applied[b] >= 1
        /\ servos[1].pulse < 1500 /\ servos[2].pulse > 1500

(* The step is the call setAngle(degrees) on servo i while its delay is 0 *)
ImmediateSetAngle(i, degrees) ==
    /\ servos[i].throttling = Num(Immediately)
    /\ hist'.calls[i] = hist.calls[i] + 1
    /\ hist'.last[i].op = "setAngle"
    /\ servos' = [servos EXCEPT ![i] = setAngle(servos[i], degrees).servo]

(* (maxPulse - minPulse) * (clamp(degrees) - minAngle), the numerator of   *)
(* the interpolation, and maxAngle - minAngle, its denominator             *)
OffsetNum(s, degrees) ==
    (s.maxPulse - s.minPulse)
        * (ConstrainInt(degrees, s.minAngle, s.maxAngle) - s.minAngle)

OffsetDen(s) == s.maxAngle - s.minAngle

C13_RangesStrict ==
    \A i \in ServoIds :
        /\ servos[i].minPulse < servos[i].maxPulse
        /\ servos[i].minAngle < servos[i].maxAngle
        /\ servos[i].pulseStep > 0

(* The step is the call setDelay(stepDuration) on servo i *)
SetDelayCall(i, stepDuration) ==
    /\ nCalls' = nCalls + 1
    /\ hist'.last[i].op = "setDelay"
    /\ servos' = [servos EXCEPT ![i] = setDelay(servos[i], Num(stepDuration)).servo]

(* 0 <= v <= 100 for a number v *)
DelayInRange(v) == v.d # 0 /\ 0 <= v.n /\ v.n <= 100 * v.d

(* C14: setDelay(ms) stores ms constrained to 0..100 as the delay and      *)
(* changes nothing else, and the delay of every servo is within 0..100     *)
(* after every step.                                                       *)
C14_DelayClamped ==
    [][ /\ \A i \in ServoIds : \A ms \in DelayArgs :
              SetDelayCall(i, ms) =>
                  /\ servos'[i] = [servos[i] EXCEPT !.throttling =
                                      Num(IF ms < 0 THEN 0 ELSE IF ms > 100 THEN 100 ELSE ms)]
                  /\ tasks' = tasks
        /\ \A i \in 1..Len(servos') : DelayInRange(servos'[i].throttling)
      ]_vars

(* The step is the call setAngle(degrees) on servo i *)
SetAngleCall(i, degrees) ==
    /\ hist'.calls[i] = hist.calls[i] + 1
    /\ hist'.last[i].op = "setAngle"
    /\ servos' = [servos EXCEPT ![i] = setAngle(servos[i], degrees).servo]
    /\ tasks' = tasks \o [j \in 1..Len(setAngle(servos[i], degrees).fibers) |->
                              NewFiber(i, setAngle(servos[i], degrees).fibers[j])]

(* The step is the call setAngleBy(degrees) on servo i *)
SetAngleByCall(i, degrees) ==
    /\ hist'.calls[i] = hist.calls[i] + 1
    /\ hist'.last[i].op = "setAngleBy"
    /\ servos' = [servos EXCEPT ![i] = setAngleBy(servos[i], degrees).servo]
    /\ tasks' = tasks \o [j \in 1..Len(setAngleBy(servos[i], degrees).fibers) |->
                              NewFiber(i, setAngleBy(servos[i], degrees).fibers[j])]

(* The step has the effect of the call setPulse(micros) on servo i: the    *)
(* servo it leaves and the fiber it creates                                *)
EffectOfSetPulse(i, micros) ==
    LET r == setPulse(servos[i], Num(micros))
    IN  /\ servos'[i] = r.servo
        /\ tasks' = tasks \o [j \in 1..Len(r.fibers) |-> NewFiber(i, r.fibers[j])]

(* C15: while minAngle = maxAngle, setAngle(a) has the effect of           *)
(* setPulse(minPulse) and setAngleBy(d) the effect of setPulse(pulse).     *)
C15_DegenerateAngles ==
    [][\A i \in ServoIds :
          servos[i].minAngle = servos[i].maxAngle =>
              /\ \A degrees \in AngleArgs :
                    SetAngleCall(i, degrees) => EffectOfSetPulse(i, servos[i].minPulse)
              /\ \A degrees \in AngleByArgs :
                    SetAngleByCall(i, degrees) => EffectOfSetPulse(i, servos[i].pulse)
      ]_vars

(* Fiber j returns in this step *)
Ends(j) == tasks[j].pc # "done" /\ tasks'[j].pc = "done"

(* What fiber j finds when it runs: all its steps applied, the power off,  *)
(* the call stack longer or shorter than when it started                   *)
StepsExhausted(j) ==
    /\ tasks[j].pc = "paused"
    /\ 2 * servos[tasks[j].servo].pulseStep * (tasks[j].k + 1)
           > 2 * Abs(tasks[j].pulseFrom - tasks[j].pulseTo)
                 - servos[tasks[j].servo].pulseStep

PowerOff(j) == ~servos[tasks[j].servo].pwmOn

Superseded(j) ==
    /\ tasks[j].pc = "paused"
    /\ tasks[j].anotherCallsCount # servos[tasks[j].servo].anotherCallStack

TooNear(j) ==
    /\ tasks[j].pc = "ready"
    /\ Abs(servos[tasks[j].servo].pulse - tasks[j].pulse)
           < servos[tasks[j].servo].pulseStep

(* Every fiber created returns *)
Terminates ==
    \A j \in 1..MaxFair :
        (j \in FiberIds) ~> (j \in FiberIds /\ tasks[j].pc = "done")

(* C16 as claimed: under fair scheduling every fiber returns, and it       *)
(* returns because its steps are exhausted, or it finds the power off, or  *)
(* it finds the call stack changed.                                        *)
C16_EndsForThreeReasons ==
    /\ Terminates
    /\ [][\A j \in FiberIds :
              Ends(j) => StepsExhausted(j) \/ PowerOff(j) \/ Superseded(j)]_vars

(* C16 amended: as claimed, with a fourth reason: the fiber finds its      *)
(* target less than one step away when it starts.                          *)
C16_EndsForFourReasons ==
    /\ Terminates
    /\ [][\A j \in FiberIds :
              Ends(j) => StepsExhausted(j) \/ PowerOff(j) \/ Superseded(j)
                             \/ TooNear(j)]_vars

(* A fiber that was superseded after its first step and has returned, the  *)
(* fiber that superseded it has returned too                               *)
C16_Witness ==
    \E a, b \in FiberIds :
        /\ a < b
        /\ tasks[a].pc = "done" /\ tasks[b].pc = "done"
        /\ hist.others[b] = "stepping"
        /\ hist.applied[a] >= 1 /\ hist.applied[b] >= 1

(* C17: a fiber that finds, when it starts, its target less than one step  *)
(* from the pulse returns in that step and leaves every servo as it is     *)
(* (no step, no snap to the target); having returned it never runs again.  *)
C17_TooNearChangesNothing ==
    [][\A j \in FiberIds :
          /\ TooNear(j) /\ tasks'[j] # tasks[j] =>
                 /\ servos' = servos
                 /\ tasks'[j].pc = "done"
                 /\ hist'.applied[j] = 0
          /\ tasks[j].pc = "done" => tasks'[j] = tasks[j] /\ ~Steps(j)
      ]_vars

(* A timed setPulse to a target 5 us away has ended: no step applied, the  *)
(* pulse where it was, the power on                                        *)
C17_Witness ==
    \E j \in FiberIds :
        /\ tasks[j].pc = "done"
        /\ hist.applied[j] = 0
        /\ ~hist.stopped[j]
        /\ hist.others[j] = "idle"
        /\ tasks[j].pulse = 1505
        /\ servos[tasks[j].servo].pulse = 1500
        /\ servos[tasks[j].servo].pwmOn

(* pulse + (maxPulse - minPulse) * degrees / (maxAngle - minAngle) as      *)
(* setPulse reads it: truncated toward zero (for minAngle < maxAngle)      *)
ShiftedPulse(s, degrees) ==
    LET n == s.pulse * OffsetDen(s) + (s.maxPulse - s.minPulse) * degrees
    IN  IF n >= 0 THEN n \div OffsetDen(s) ELSE -((-n) \div OffsetDen(s))

(* C18: while minAngle < maxAngle, setAngleBy(delta) has the effect of     *)
(* setPulse(pulse + (maxPulse - minPulse) * delta / (maxAngle - minAngle)) *)
(* for positive and for negative delta.                                    *)
C18_RelativeAngle ==
    [][\A i \in ServoIds : \A degrees \in AngleByArgs :
          SetAngleByCall(i, degrees) /\ OffsetDen(servos[i]) > 0
              => EffectOfSetPulse(i, ShiftedPulse(servos[i], degrees))]_vars

(* The step is a call of setPulseBy on servo i *)
SetPulseByCall(i) ==
    /\ hist'.calls[i] = hist.calls[i] + 1
    /\ hist'.last[i].op = "setPulseBy"

(* C19: setPulseBy(delta) has the effect of setPulse(pulse + delta), with  *)
(* the pulse read at the call: the same servo state and the same fiber,    *)
(* whether the delay is 0 or not.                                          *)
C19_RelativePulse ==
    [][\A i \in ServoIds :
          SetPulseByCall(i) =>
              \E micros \in PulseByArgs :
                  /\ hist'.last[i].micros = servos[i].pulse + micros
                  /\ EffectOfSetPulse(i, servos[i].pulse + micros)]_vars

(* setPulseBy(7) in timed mode: a fiber bound for the pulse at the call    *)
(* plus 7                                                                  *)
C19_Witness ==
    \E j \in FiberIds :
        /\ hist.last[tasks[j].servo].op = "setPulseBy"
        /\ hist.last[tasks[j].servo].kind = "timed"
        /\ hist.made[j] = hist.calls[tasks[j].servo]
        /\ tasks[j].pulse = hist.from[j] + 7

(* The step is a call of createServo *)
CreateServoCall == Len(hist'.last) = Len(hist.last) + 1

(* C20: a createServo call puts exactly one new servo at the end of        *)
(* _servos and leaves the servos before it as they are; no other step      *)
(* changes the length of _servos; no step removes a servo or moves one to  *)
(* another place (a step changes at most one servo, and never its pin).    *)
C20_AppendOnly ==
    [][ /\ CreateServoCall =>
              /\ Len(servos') = Len(servos) + 1
              /\ SubSeq(servos', 1, Len(servos)) = servos
              /\ servos'[Len(servos')].pulse = servos'[Len(servos')].neutralPulse
              /\ servos'[Len(servos')].anotherCallStack = 0
        /\ ~CreateServoCall =>
              /\ Len(servos') = Len(servos)
              /\ \A k \in ServoIds : servos'[k].pin = servos[k].pin
              /\ \E i \in ServoIds \cup {0} : Frame(i)
      ]_vars

(* A second servo was created after the first had been used: the first is  *)
(* still first                                                             *)
C20_Witness ==
    /\ Len(servos) = 2
    /\ hist.last[2].op = "createServo"
    /\ hist.calls[1] >= 1
    /\ servos[1].anotherCallStack >= 1
    /\ servos[2].anotherCallStack = 0
    /\ servos[1].pin # servos[2].pin

====
